---- MODULE Spec2Model ----
(***************************************************************************)
(* BaseExperimentRunner (experiments/base_experiment_runner.py): the       *)
(* dataset partitioning strategies (random_split,                          *)
(* create_skewed_partition_split, create_partitioned_datasets /            *)
(* split_training_data_into_paritions), the model factory create_models    *)
(* and the batch generator get_train_dataloader_for_node.                  *)
(*                                                                         *)
(* Arrays are sequences (index 1 here is index 0 of the code).  A raw      *)
(* image is its intensity (a uint8); image j of the training set has       *)
(* intensity j, so the images of one training set are pairwise distinct.   *)
(* A normalized image is the record normalize_data makes of it.  Labels    *)
(* are integers (the 1-D label array of mnist).                            *)
(***************************************************************************)
EXTENDS Integers, Sequences, FiniteSets, TLC

VARIABLES
    dataset,              \* self.dataset
    net,                  \* self.net
    lr,                   \* self.lr
    num_nodes,            \* self.num_nodes
    batch_size,           \* self.batch_size
    x_train,              \* self.x_train: raw training images
    y_train,              \* self.y_train: training labels
    x_test,               \* self.x_test
    y_test,               \* self.y_test
    partitioned_x_train,  \* self.partitioned_x_train, read by the dataloader
    partitioned_y_train,  \* self.partitioned_y_train
    called,               \* the method last called, with its argument
    raised,               \* the exception it raised, "none" when it returned
    ret,                  \* what it returned
    gen                   \* the generator get_train_dataloader_for_node made

vars == <<dataset, net, lr, num_nodes, batch_size, x_train, y_train, x_test,
          y_test, partitioned_x_train, partitioned_y_train, called, raised,
          ret, gen>>

config == <<dataset, net, lr, num_nodes, batch_size>>
data == <<x_train, y_train, x_test, y_test>>
fields == <<partitioned_x_train, partitioned_y_train>>

----------------------------------------------------------------------------
(* Bounds of the model. *)

\* the longest training set
MaxTrain == 3
\* node counts 1..MaxNodes, and 10
MaxNodes == 3
\* batch sizes 1..MaxBatch
MaxBatch == 2
\* batches drawn from one generator
MaxBatches == 5

\* the labels of the training sets: both ends of the class blocks 0-4 and 5-9
TrainLabels == {0, 3, 4, 5, 9}
NodeCounts == (1 .. MaxNodes) \cup {10}
\* skew factors as fractions <<p, q>>: 0, 0.5, 0.8, 0.9 (the default) and 1.
\* For these int(n * skew_factor) of the code's floats is (n * p) \div q.
SkewFactors == {<<0, 1>>, <<1, 2>>, <<4, 5>>, <<9, 10>>, <<1, 1>>}
\* the fixed label set: range(10)
NumClasses == 10
Datasets == {"mnist", "cifar10"}
Nets == {"simple", "resnet50", "resnet18", "vgg16"}
LearningRates == {"0.001", "0.01"}

----------------------------------------------------------------------------
(* Values. *)

NoCall == [name |-> "none", skew_factor |-> <<0, 1>>, node_idx |-> 0]
Call(name) == [name |-> name, skew_factor |-> <<0, 1>>, node_idx |-> 0]

\* ret.kind: "nothing" (no call has returned), "None", "tuple" (a split's
\* 4-tuple), "list" (of models), "generator"
NoRet == [kind |-> "nothing", x_train |-> <<>>, y_train |-> <<>>,
          x_test |-> <<>>, y_test |-> <<>>, models |-> <<>>]

\* gen.state: "none" (no generator), "created" (not started), "suspended"
\* (at the yield), "running" (a next() that never returns)
NoGen == [state |-> "none", node_idx |-> 0, i |-> 0, k |-> 0,
          x_batch |-> <<>>, y_batch |-> <<>>]

\* No method of the runner assigns a field of it: a call made after another
\* returns what the same call returns on the fresh runner.  The model
\* follows each runner through one call of a method.
Fresh == called.name = "none"

Min(a, b) == IF a < b THEN a ELSE b

\* seq[indices]: numpy's indexing of an array by an index array
Take(seq, indices) == [j \in 1 .. Len(indices) |-> seq[indices[j]]]

----------------------------------------------------------------------------
(* normalize_data *)

Channels == IF dataset = "mnist" THEN 1 ELSE 3

\* one image reshaped to [size, size, channels] and divided by 255
NormalizeImage(img) == [value |-> <<img, 255>>, channels |-> Channels]

normalize_data(images) == [j \in 1 .. Len(images) |-> NormalizeImage(images[j])]

----------------------------------------------------------------------------
(* random_split *)

\* np.array_split: n sections, the first Len(ary) % n of them one longer
SectionStart(total, n, k) == (k - 1) * (total \div n) + Min(k - 1, total % n)

\* faulty variant: n sections of Len(ary) \div n elements, the remainder left out
array_split_equal(ary, n) ==
    [k \in 1 .. n |->
        SubSeq(ary, (k - 1) * (Len(ary) \div n) + 1, k * (Len(ary) \div n))]

array_split(ary, n) ==
    [k \in 1 .. n |->
        SubSeq(ary, SectionStart(Len(ary), n, k) + 1,
                    SectionStart(Len(ary), n, k + 1))]

\* the 4-tuple random_split returns for the permutation `indices`
random_split(indices) ==
    [kind |-> "tuple",
     x_train |-> array_split(Take(normalize_data(x_train), indices), num_nodes),
     y_train |-> array_split(Take(y_train, indices), num_nodes),
     x_test |-> normalize_data(x_test),
     y_test |-> y_test,
     models |-> <<>>]

RandomSplit ==
    \E indices \in Permutations(1 .. Len(x_train)) :
        /\ Fresh
        /\ called' = Call("random_split")
        /\ raised' = "none"
        /\ ret' = random_split(indices)
        /\ UNCHANGED <<config, data, fields, gen>>

----------------------------------------------------------------------------
(* create_skewed_partition_split *)

\* the indices of the training samples labelled `label`, in order
LabelIndices(label) ==
    SelectSeq([j \in 1 .. Len(y_train) |-> j], LAMBDA j : y_train[j] = label)

x_train_by_label(label) == Take(normalize_data(x_train), LabelIndices(label))
y_train_by_label(label) == [j \in 1 .. Len(LabelIndices(label)) |-> label]

\* int(num_samples * skew_factor), skew_factor the fraction <<p, q>>
NumSamplesForNode1(num_samples, skew_factor) ==
    (num_samples * skew_factor[1]) \div skew_factor[2]

\* faulty variant: the two nodes exchanged
HomeIndexSwapped(i) == 1 - (i \div 5)

\* int(i / 5) and int((i / 5)) - 1
HomeIndex(i) == i \div 5
OtherIndex(i) == (i \div 5) - 1

\* the position in a sequence of length n of Python's list index idx
PyIndex(idx, n) == IF idx < 0 THEN n + idx + 1 ELSE idx + 1

Extend(lists, idx, items) ==
    [lists EXCEPT ![PyIndex(idx, Len(lists))] = @ \o items]

\* the loop over the labels i, i + 1, ..., 9 on the lists built so far
RECURSIVE SkewLoop(_, _, _, _)

\* the body of the loop for label i: xl, yl are x_train_by_label[i] and
\* y_train_by_label[i], n1 is num_samples_for_node_1
SkewBody(i, xs, ys, xl, yl, n1, skew_factor) ==
    SkewLoop(i + 1,
             Extend(Extend(xs, HomeIndex(i), SubSeq(xl, 1, n1)),
                    OtherIndex(i), SubSeq(xl, n1 + 1, Len(xl))),
             Extend(Extend(ys, HomeIndex(i), SubSeq(yl, 1, n1)),
                    OtherIndex(i), SubSeq(yl, n1 + 1, Len(yl))),
             skew_factor)

SkewIteration(i, xs, ys, xl, yl, skew_factor) ==
    SkewBody(i, xs, ys, xl, yl, NumSamplesForNode1(Len(xl), skew_factor),
             skew_factor)

SkewLoop(i, xs, ys, skew_factor) ==
    IF i = NumClasses THEN [x |-> xs, y |-> ys]
    ELSE SkewIteration(i, xs, ys, x_train_by_label(i), y_train_by_label(i),
                       skew_factor)

skewed_partitioned(skew_factor) == SkewLoop(0, <<<<>>, <<>>>>, <<<<>>, <<>>>>, skew_factor)

\* faulty variant: the labels left in the order the loop built
LabelsNotShuffled(labels, indices) == labels

\* the labels of partition i after the shuffle by `indices`
ShuffledLabels(labels, indices) == Take(labels, indices)

\* the 4-tuple create_skewed_partition_split returns: the lists `parts` the
\* loop built, each shuffled by its permutation shuffle[i]
create_skewed_partition_split(parts, shuffle) ==
    [kind |-> "tuple",
     x_train |-> [i \in 1 .. 2 |-> Take(parts.x[i], shuffle[i])],
     y_train |-> [i \in 1 .. 2 |-> ShuffledLabels(parts.y[i], shuffle[i])],
     x_test |-> normalize_data(x_test),
     y_test |-> y_test,
     models |-> <<>>]

CreateSkewedPartitionSplit ==
    \E skew_factor \in SkewFactors :
        /\ Fresh
        /\ \E parts \in {skewed_partitioned(skew_factor)} :
             \E p0 \in Permutations(1 .. Len(parts.x[1])),
                p1 \in Permutations(1 .. Len(parts.x[2])) :
                 /\ called' = [Call("create_skewed_partition_split")
                                  EXCEPT !.skew_factor = skew_factor]
                 /\ raised' = "none"
                 /\ ret' = create_skewed_partition_split(parts, <<p0, p1>>)
                 /\ UNCHANGED <<config, data, fields, gen>>

----------------------------------------------------------------------------
(* split_training_data_into_paritions, create_partitioned_datasets *)

\* list(range(10))
classes == [c \in 1 .. NumClasses |-> c - 1]

\* int(len(classes) / num_partitions)
NumClassesPerPartition(num_partitions) == Len(classes) \div num_partitions

\* [classes[i : i + n] for i in range(0, len(classes), n)]
partitioned_classes(num_partitions) ==
    LET n == NumClassesPerPartition(num_partitions)
    IN  [c \in 1 .. ((Len(classes) + n - 1) \div n) |->
            SubSeq(classes, (c - 1) * n + 1, Min(c * n, Len(classes)))]

\* len(y_train.shape): mnist labels are (N,), cifar10 labels are (N, 1)
LabelDims == IF dataset = "mnist" THEN 1 ELSE 2

\* np.isin(y_train, partition), column 0 of it for 2-D labels
Selected(labels, partition) ==
    IF LabelDims = 2
    THEN [j \in 1 .. Len(labels) |-> \E c \in 1 .. Len(partition) : partition[c] = labels[j]]
    ELSE [j \in 1 .. Len(labels) |-> \E c \in 1 .. Len(partition) : partition[c] = labels[j]]

\* ary[selected]: the rows of ary at which the boolean mask holds
RECURSIVE Subset(_, _)
Subset(ary, selected) ==
    IF ary = <<>> THEN <<>>
    ELSE (IF Head(selected) THEN <<Head(ary)>> ELSE <<>>)
             \o Subset(Tail(ary), Tail(selected))

\* faulty variant: <= for <
SmallerOrEqual(selected_len, original_len) == selected_len <= original_len

\* assert x_train_selected.shape[0] < x_train.shape[0]
SmallerThanOriginal(selected_len, original_len) == selected_len < original_len

\* the loop over partitioned_classes from partition c on
RECURSIVE SplitLoop(_, _, _, _, _, _)
SplitLoop(c, parts, xs, ys, px, py) ==
    IF c > Len(parts) THEN [raised |-> "none", x |-> px, y |-> py]
    ELSE LET selected == Selected(ys, parts[c])
             x_train_selected == Subset(xs, selected)
             y_train_selected == Subset(ys, selected)
         IN  IF ~SmallerThanOriginal(Len(x_train_selected), Len(xs))
             THEN [raised |-> "AssertionError", x |-> <<>>, y |-> <<>>]
             ELSE SplitLoop(c + 1, parts, xs, ys,
                            Append(px, x_train_selected),
                            Append(py, y_train_selected))

split_training_data_into_paritions(xs, ys, num_partitions) ==
    SplitLoop(1, partitioned_classes(num_partitions), xs, ys, <<>>, <<>>)

CreatePartitionedDatasets ==
    LET r == split_training_data_into_paritions(
                 normalize_data(x_train), y_train, num_nodes)
    IN  /\ Fresh
        /\ called' = Call("create_partitioned_datasets")
        /\ raised' = r.raised
        /\ ret' = IF r.raised = "none"
                  THEN [kind |-> "tuple", x_train |-> r.x, y_train |-> r.y,
                        x_test |-> normalize_data(x_test), y_test |-> y_test,
                        models |-> <<>>]
                  ELSE NoRet
        /\ UNCHANGED <<config, data, fields, gen>>

----------------------------------------------------------------------------
(* create_models *)

\* SimpleMnistModel(lr=self.lr).run(), the instance built for node n
SimpleMnistModel(n) ==
    [builder |-> "SimpleMnistModel", lr |-> lr, net |-> "", weights |-> "",
     instance |-> n]

\* ResNetModelBuilder(lr=self.lr, net="ResNet50", weights="imagenet").run()
ResNetModelBuilder(n) ==
    [builder |-> "ResNetModelBuilder", lr |-> lr, net |-> "ResNet50",
     weights |-> "imagenet", instance |-> n]

\* what the method does when neither branch of its if / elif is taken
NoBranch == [raised |-> "none", ret |-> [NoRet EXCEPT !.kind = "None"]]

create_models ==
    IF dataset = "mnist" /\ net # "simple"
    THEN [raised |-> "AssertionError", ret |-> NoRet]
    ELSE IF net = "simple"
    THEN [raised |-> "none",
          ret |-> [NoRet EXCEPT !.kind = "list",
                      !.models = [n \in 1 .. num_nodes |-> SimpleMnistModel(n)]]]
    ELSE IF net = "resnet50"
    THEN [raised |-> "none",
          ret |-> [NoRet EXCEPT !.kind = "list",
                      !.models = [n \in 1 .. num_nodes |-> ResNetModelBuilder(n)]]]
    ELSE NoBranch

CreateModels ==
    /\ Fresh
    /\ called' = Call("create_models")
    /\ raised' = create_models.raised
    /\ ret' = create_models.ret
    /\ UNCHANGED <<config, data, fields, gen>>

----------------------------------------------------------------------------
(* get_train_dataloader_for_node *)

\* seq[i : j] of Python, i and j indices from 0
Slice(seq, i, j) == SubSeq(seq, i + 1, Min(j, Len(seq)))

\* while True: the index the for loop starts over with, -1 when the
\* partition is empty and the loop never reaches the yield
Restart(n) == IF n > 0 THEN 0 ELSE -1

\* faulty variant: the loop steps by one sample, not by batch_size
NextIndexByOne(state, i, n) ==
    IF (IF state = "created" THEN 0 ELSE i + 1) < n
    THEN (IF state = "created" THEN 0 ELSE i + 1)
    ELSE Restart(n)

\* range(0, n, batch_size): the index after i, the first one for a
\* generator that has not started
NextIndex(state, i, n) ==
    IF (IF state = "created" THEN 0 ELSE i + batch_size) < n
    THEN (IF state = "created" THEN 0 ELSE i + batch_size)
    ELSE Restart(n)

\* calling the generator function runs none of its body
GetTrainDataloaderForNode ==
    \E node_idx \in 0 .. (Len(partitioned_x_train) - 1) :
        /\ Fresh
        /\ called' = [Call("get_train_dataloader_for_node")
                         EXCEPT !.node_idx = node_idx]
        /\ raised' = "none"
        /\ ret' = [NoRet EXCEPT !.kind = "generator"]
        /\ gen' = [NoGen EXCEPT !.state = "created", !.node_idx = node_idx]
        /\ UNCHANGED <<config, data, fields>>

\* next() on the generator: the body runs to its next yield
NextBatch ==
    /\ gen.state \in {"created", "suspended"}
    /\ gen.k < MaxBatches
    /\ \E i \in {NextIndex(gen.state, gen.i,
                           Len(partitioned_x_train[gen.node_idx + 1]))} :
          gen' = IF i < 0
                 THEN [gen EXCEPT !.state = "running"]
                 ELSE [gen EXCEPT
                          !.state = "suspended",
                          !.i = i,
                          !.k = @ + 1,
                          !.x_batch = Slice(partitioned_x_train[gen.node_idx + 1],
                                            i, i + batch_size),
                          !.y_batch = Slice(partitioned_y_train[gen.node_idx + 1],
                                            i, i + batch_size)]
    /\ UNCHANGED <<config, data, fields, called, raised, ret>>

----------------------------------------------------------------------------
(* Specifications. *)

\* the label arrays of the loaded training sets, of 1 to MaxTrain samples
TrainingLabelArrays == UNION {[1 .. n -> TrainLabels] : n \in 1 .. MaxTrain}

\* the state after __init__ on an mnist-shaped dataset
Init ==
    /\ dataset = "mnist"
    /\ net = "simple"
    /\ lr = "0.001"
    /\ num_nodes \in NodeCounts
    /\ batch_size = 1
    /\ y_train \in TrainingLabelArrays
    /\ x_train = [j \in 1 .. Len(y_train) |-> j]
    /\ x_test = <<200>>
    /\ y_test = <<7>>
    /\ partitioned_x_train = <<>>
    /\ partitioned_y_train = <<>>
    /\ called = NoCall
    /\ raised = "none"
    /\ ret = NoRet
    /\ gen = NoGen

Next ==
    \/ RandomSplit
    \/ CreateSkewedPartitionSplit
    \/ CreatePartitionedDatasets

Spec == Init /\ [][Next]_vars

\* the runners create_models is called on
InitModels ==
    /\ dataset \in Datasets
    /\ net \in Nets
    /\ lr \in LearningRates
    /\ num_nodes \in NodeCounts \cup {0}
    /\ batch_size = 1
    /\ x_train = <<>>
    /\ y_train = <<>>
    /\ x_test = <<>>
    /\ y_test = <<>>
    /\ partitioned_x_train = <<>>
    /\ partitioned_y_train = <<>>
    /\ called = NoCall
    /\ raised = "none"
    /\ ret = NoRet
    /\ gen = NoGen

NextModels == CreateModels

SpecModels == InitModels /\ [][NextModels]_vars

\* the labels of the training sets the dataloader's partitions are made of
LoaderLabels == {4, 5}

\* the partitions a split of the runner returns without the shuffled skew
SplitResults ==
    {random_split(indices) : indices \in Permutations(1 .. Len(x_train))}
    \cup {[NoRet EXCEPT !.x_train = r.x, !.y_train = r.y] :
            r \in {s \in {split_training_data_into_paritions(
                              normalize_data(x_train), y_train, num_nodes)} :
                      s.raised = "none"}}

\* a runner whose partitioned_x_train and partitioned_y_train hold the
\* training partitions a split returned
InitLoader ==
    /\ dataset = "mnist"
    /\ net = "simple"
    /\ lr = "0.001"
    /\ num_nodes \in NodeCounts
    /\ batch_size \in 1 .. MaxBatch
    /\ y_train \in UNION {[1 .. n -> LoaderLabels] : n \in 1 .. MaxTrain}
    /\ x_train = [j \in 1 .. Len(y_train) |-> j]
    /\ x_test = <<200>>
    /\ y_test = <<7>>
    /\ \E r \in SplitResults :
          /\ partitioned_x_train = r.x_train
          /\ partitioned_y_train = r.y_train
    /\ called = NoCall
    /\ raised = "none"
    /\ ret = NoRet
    /\ gen = NoGen

NextLoader ==
    \/ GetTrainDataloaderForNode
    \/ NextBatch

SpecLoader == InitLoader /\ [][NextLoader]_vars

----------------------------------------------------------------------------
(* Properties. *)

\* the positions <<k, t>> of a list of partitions
Positions(parts) ==
    UNION {{<<k, t>> : t \in 1 .. Len(parts[k])} : k \in 1 .. Len(parts)}

\* every training sample is at exactly one position of the partitions xs,
\* every position holds a training sample, and the label at a position of
\* ys is the training label of the image at that position of xs
ExactPartition(xs, ys) ==
    /\ Len(ys) = Len(xs)
    /\ \A k \in 1 .. Len(xs) : Len(ys[k]) = Len(xs[k])
    /\ \A j \in 1 .. Len(x_train) :
          Cardinality({pos \in Positions(xs) :
                          xs[pos[1]][pos[2]] = NormalizeImage(x_train[j])}) = 1
    /\ \A pos \in Positions(xs) :
          \E j \in 1 .. Len(x_train) :
              /\ xs[pos[1]][pos[2]] = NormalizeImage(x_train[j])
              /\ ys[pos[1]][pos[2]] = y_train[j]

\* the t-th smallest element of a set of indices
NthOf(S, t) == CHOOSE j \in S : Cardinality({i \in S : i < j}) = t - 1

\* C1: random_split returns num_nodes training partitions; every training
\* sample is in exactly one of them, their sizes differ by at most one and
\* the label at each position is the original label of the image there.
C1_RandomSplitPartitions ==
    called.name = "random_split" =>
        /\ raised = "none"
        /\ ret.kind = "tuple"
        /\ Len(ret.x_train) = num_nodes
        /\ ExactPartition(ret.x_train, ret.y_train)
        /\ \A k1, k2 \in 1 .. num_nodes :
              Len(ret.x_train[k1]) - Len(ret.x_train[k2]) <= 1

\* a shuffled split of three samples over two nodes, of sizes 2 and 1
C1_Witness ==
    /\ called.name = "random_split"
    /\ num_nodes = 2
    /\ Len(x_train) = 3
    /\ Len(ret.x_train[1]) = 2
    /\ Len(ret.x_train[2]) = 1
    /\ ret.x_train[1][1] = NormalizeImage(x_train[3])
    /\ y_train[3] # y_train[1]

\* the k-th block (k from 0) of 10 / num_partitions consecutive classes
ClassBlock(k, num_partitions) ==
    {c \in 0 .. 9 : c \div (10 \div num_partitions) = k}

InBlock(k, num_partitions) ==
    {j \in 1 .. Len(y_train) : y_train[j] \in ClassBlock(k, num_partitions)}

\* partition k of xs, ys holds the samples of block k - 1, in their order
ClassPartitions(xs, ys, num_partitions) ==
    /\ Len(xs) = num_partitions
    /\ Len(ys) = num_partitions
    /\ \A k \in 1 .. num_partitions :
          LET S == InBlock(k - 1, num_partitions)
          IN  /\ Len(xs[k]) = Cardinality(S)
              /\ Len(ys[k]) = Cardinality(S)
              /\ \A t \in 1 .. Cardinality(S) :
                    /\ xs[k][t] = NormalizeImage(x_train[NthOf(S, t)])
                    /\ ys[k][t] = y_train[NthOf(S, t)]
    /\ ExactPartition(xs, ys)

\* some block of classes holds every training sample
OneBlockHoldsAll(num_partitions) ==
    \E k \in 0 .. num_partitions - 1 :
        InBlock(k, num_partitions) = 1 .. Len(y_train)

\* C2 as stated: for 2 and 10 partitions and any training set the class
\* split returns the partitions of the class blocks, in order and aligned,
\* disjoint and covering.
C2_AnyTrainingSet ==
    (called.name = "create_partitioned_datasets" /\ num_nodes \in {2, 10}) =>
        /\ raised = "none"
        /\ ClassPartitions(ret.x_train, ret.y_train, num_nodes)

\* C2 amended: the same when no block of classes holds every training
\* sample; when one does, the assertion "partitioned dataset should be
\* smaller than original dataset" fails.
C2_ClassPartitions ==
    (called.name = "create_partitioned_datasets" /\ num_nodes \in {2, 10}) =>
        IF OneBlockHoldsAll(num_nodes)
        THEN raised = "AssertionError"
        ELSE /\ raised = "none"
             /\ ret.kind = "tuple"
             /\ ClassPartitions(ret.x_train, ret.y_train, num_nodes)

\* ten partitions, three of them holding one sample each
C2_Witness ==
    /\ called.name = "create_partitioned_datasets"
    /\ num_nodes = 10
    /\ raised = "none"
    /\ y_train = <<9, 0, 5>>
    /\ Len(ret.x_train[1]) = 1
    /\ Len(ret.x_train[6]) = 1
    /\ Len(ret.x_train[10]) = 1

\* the number of labels of `labels` in lo .. hi
CountIn(labels, lo, hi) ==
    Cardinality({t \in 1 .. Len(labels) : labels[t] \in lo .. hi})

\* the number of labels whose int(n * p / q) samples are a truncation
Truncated(p, q) ==
    Cardinality({l \in 0 .. 9 : (Len(LabelIndices(l)) * p) % q # 0})

\* C3: with skew factor s = p / q, a fraction s of node 0's samples is
\* labelled 0-4 and a fraction s of node 1's samples is labelled 5-9 (the
\* rest of each node being of the other half), up to one sample for each
\* label whose count is truncated.
C3_SkewedFractions ==
    called.name = "create_skewed_partition_split" =>
        LET p == called.skew_factor[1]
            q == called.skew_factor[2]
            own0 == CountIn(ret.y_train[1], 0, 4)
            own1 == CountIn(ret.y_train[2], 5, 9)
            d0 == q * own0 - p * Len(ret.y_train[1])
            d1 == q * own1 - p * Len(ret.y_train[2])
        IN  /\ Len(ret.y_train) = 2
            /\ d0 <= q * Truncated(p, q) /\ -d0 <= q * Truncated(p, q)
            /\ d1 <= q * Truncated(p, q) /\ -d1 <= q * Truncated(p, q)

\* the pairs <<image, label>> of a partition, each with its multiplicity
SameSamples(xs1, ys1, xs2, ys2) ==
    /\ Len(xs1) = Len(ys1)
    /\ Len(xs2) = Len(ys2)
    /\ Len(xs1) = Len(xs2)
    /\ \A t \in 1 .. Len(xs1) :
          Cardinality({u \in 1 .. Len(xs1) : <<xs1[u], ys1[u]>> = <<xs1[t], ys1[t]>>})
          = Cardinality({u \in 1 .. Len(xs2) : <<xs2[u], ys2[u]>> = <<xs1[t], ys1[t]>>})

\* split_training_data_into_paritions(x_train, y_train, num_partitions=2)
TwoClassPartitions ==
    split_training_data_into_paritions(normalize_data(x_train), y_train, 2)

SkewedSameAsTwoClassPartitions ==
    /\ Len(ret.x_train) = 2
    /\ \A k \in 1 .. 2 :
          SameSamples(ret.x_train[k], ret.y_train[k],
                      TwoClassPartitions.x[k], TwoClassPartitions.y[k])

C5_CreateModels ==
    called.name = "create_models" =>
        /\ raised = "none" =>
              /\ ret.kind = "list"
              /\ Len(ret.models) = num_nodes
              /\ \A m, n \in 1 .. Len(ret.models) :
                    ret.models[m].instance = ret.models[n].instance => m = n
        /\ (dataset = "mnist" /\ net # "simple") => raised = "AssertionError"

C7_CyclicBatches ==
    gen.state # "none" =>
        LET px == partitioned_x_train[gen.node_idx + 1]
            py == partitioned_y_train[gen.node_idx + 1]
            n == Len(px)
            b == batch_size
            i == ((gen.k - 1) % ((n + b - 1) \div b)) * b
            last == IF i + b < n THEN i + b ELSE n
        IN  /\ n >= 1 => gen.state \in {"created", "suspended"}
            /\ gen.state = "created" => gen.k = 0
            /\ gen.state = "suspended" =>
                  /\ n >= 1
                  /\ gen.k >= 1
                  /\ gen.i = i
                  /\ gen.x_batch = [t \in 1 .. last - i |-> px[i + t]]
                  /\ gen.y_batch = [t \in 1 .. last - i |-> py[i + t]]

\* the fourth batch of a partition of three samples in batches of two: the
\* short batch of the second pass
C7_Witness ==
    /\ gen.state = "suspended"
    /\ batch_size = 2
    /\ Len(partitioned_x_train[gen.node_idx + 1]) = 3
    /\ gen.k = 4
    /\ gen.i = 2
    /\ Len(gen.x_batch) = 1

====
